---- MODULE Spec2Model ----
(***************************************************************************)
(* Model of supabase/functions/download-time-entries-pdf/index.ts: the      *)
(* line wrapper (writeWrappedText) and the page-by-page composition of the  *)
(* report (buildPdf).                                                       *)
(*                                                                          *)
(* Units.  Vertical offsets are kept in hundredths of a PDF point, so the   *)
(* A4 page height 841.89 is 84189 and every layout constant of the source   *)
(* is multiplied by 100.  Text widths are kept in thousandths of a point:   *)
(* the width of a text at size s is (sum of glyph advance widths) * s,      *)
(* compared against maxWidth * 1000.                                        *)
(*                                                                          *)
(* The source computes in doubles.  Every cursor value is 841.89 minus an   *)
(* integer and every threshold is an integer, so each comparison of the     *)
(* source is decided by a margin of at least 0.11 and integer arithmetic    *)
(* on the scaled values decides it the same way.                            *)
(*                                                                          *)
(* A text is a sequence of one-character strings.                           *)
(***************************************************************************)
EXTENDS Integers, Sequences, FiniteSets, TLC

VARIABLES
    entries,    \* buildPdf: the input array (never assigned)
    pc,         \* buildPdf: position in the function body
    i,          \* buildPdf: number of entries the for-of loop has taken
    npages,     \* pdfDoc: number of pages added so far
    page,       \* buildPdf: `page`, the index of the page being drawn on
    y,          \* buildPdf: `y`, the cursor
    total,      \* buildPdf: `total`
    row,        \* buildPdf: cells / descLines / neededHeight of the current entry
    ops,        \* every draw call made so far, in call order
    result,     \* buildPdf: the returned value
    wtext,      \* writeWrappedText: argument `text`
    wmax,       \* writeWrappedText: argument `maxWidth`
    wlines,     \* writeWrappedText: the returned `lines`
    wagain,     \* writeWrappedText: the lines returned for wlines.join(" ")
    wpc,        \* writeWrappedText: "call" before the call, "ret" after it
    req,        \* Deno.serve handler: the request
    hpc,        \* Deno.serve handler: position in the handler
    err,        \* Deno.serve handler: <<message>> of what line 206 caught, else <<>>
    resp,       \* Deno.serve handler: the Response returned
    inv         \* concurrent invocations of buildPdf: the locals of each

vars == <<entries, pc, i, npages, page, y, total, row, ops, result,
          wtext, wmax, wlines, wagain, wpc, req, hpc, err, resp, inv>>

bvars == <<entries, pc, i, npages, page, y, total, row, ops, result>>
wvars == <<wtext, wmax, wlines, wagain, wpc>>
hvars == <<req, hpc, err, resp>>
cvars == <<inv>>

----------------------------------------------------------------------------
(* Bounds *)

MaxEntries == 3     \* longest input array explored
MaxTextLen == 7     \* longest text handed to the wrapper on its own

----------------------------------------------------------------------------
(* Layout constants, index.ts lines 43-53 (hundredths of a point) *)

pageHeight   == 84189
pageWidth    == 59528
margin       == 4000
headerHeight == 5600
rowHeight    == 2200
tableTopGap  == 1800
tableCols    == <<100, 140, 70, 210>>   \* points
fontSize     == 11
lineStep     == 1400                    \* the literal 14 of lines 129 and 153
rowGap       == 600                     \* the literal 6 of line 156
footerStep   == 1400                    \* the literal 14 of line 164

----------------------------------------------------------------------------
(* Text measurer: font.widthOfTextAtSize(text, size), line 103.            *)
(* Helvetica advance widths in 1/1000 em; none of the pairs of these       *)
(* glyphs has a kerning entry, so the width is the sum of the advances.    *)

Alphabet == {" ", "a", "m"}

glyphWidth(c) == CASE c = " " -> 278
                   [] c = "a" -> 556
                   [] c = "m" -> 833

RECURSIVE sumWidths(_, _)
sumWidths(text, k) ==
    IF k > Len(text) THEN 0 ELSE glyphWidth(text[k]) + sumWidths(text, k + 1)

widthOfTextAtSize(text, size) == sumWidths(text, 1) * size

----------------------------------------------------------------------------
(* Line wrapper, lines 97-113 *)

isWhitespace(c) == c = " "

\* String.prototype.split(/\s+/): the pieces between maximal runs of
\* whitespace; a run at the start or at the end leaves an empty piece there.
\* Piece j lies between the end of run j-1 and the start of run j.
split(text) ==
    LET n         == Len(text)
        ws(k)     == isWhitespace(text[k])
        runStarts == { k \in 1..n : ws(k) /\ (k = 1 \/ ~ws(k - 1)) }
        runEnds   == { k \in 1..n : ws(k) /\ (k = n \/ ~ws(k + 1)) }
        nruns     == Cardinality(runStarts)
        nth(S, j) == CHOOSE k \in S : Cardinality({ m \in S : m < k }) = j - 1
    IN  [ j \in 1..(nruns + 1) |->
            SubSeq(text,
                   IF j = 1 THEN 1 ELSE nth(runEnds, j - 1) + 1,
                   IF j = nruns + 1 THEN n ELSE nth(runStarts, j) - 1) ]

\* lines 101-111 with line 106 clearing the line instead of starting it
\* with the word
RECURSIVE wrapWords_dropWord(_, _, _, _, _)
wrapWords_dropWord(words, k, current, lines, maxWidth) ==
    IF k > Len(words)
    THEN IF current # <<>> THEN Append(lines, current) ELSE lines
    ELSE LET w         == words[k]
             tentative == IF current # <<>> THEN current \o <<" ">> \o w ELSE w
             width     == widthOfTextAtSize(tentative, fontSize)
         IN  IF width > maxWidth * 1000 /\ current # <<>>
             THEN wrapWords_dropWord(words, k + 1, <<>>, Append(lines, current), maxWidth)
             ELSE wrapWords_dropWord(words, k + 1, tentative, lines, maxWidth)

\* lines 101-111 with line 103 measuring the word instead of the tentative line
RECURSIVE wrapWords_measureWord(_, _, _, _, _)
wrapWords_measureWord(words, k, current, lines, maxWidth) ==
    IF k > Len(words)
    THEN IF current # <<>> THEN Append(lines, current) ELSE lines
    ELSE LET w         == words[k]
             tentative == IF current # <<>> THEN current \o <<" ">> \o w ELSE w
             width     == widthOfTextAtSize(w, fontSize)
         IN  IF width > maxWidth * 1000 /\ current # <<>>
             THEN wrapWords_measureWord(words, k + 1, w, Append(lines, current), maxWidth)
             ELSE wrapWords_measureWord(words, k + 1, tentative, lines, maxWidth)

\* The forEach of lines 101-110 from word k on, then line 111.
\* A string is falsy exactly when it is empty.
RECURSIVE wrapWords(_, _, _, _, _)
wrapWords(words, k, current, lines, maxWidth) ==
    IF k > Len(words)
    THEN IF current # <<>> THEN Append(lines, current) ELSE lines
    ELSE LET w         == words[k]
             tentative == IF current # <<>> THEN current \o <<" ">> \o w ELSE w
             width     == widthOfTextAtSize(tentative, fontSize)
         IN  IF width > maxWidth * 1000 /\ current # <<>>
             THEN wrapWords(words, k + 1, w, Append(lines, current), maxWidth)
             ELSE wrapWords(words, k + 1, tentative, lines, maxWidth)

\* lines 97-113 taking the cell padding of 4 off maxWidth a second time
writeWrappedText_narrow(text, maxWidth, lineHeight) ==
    wrapWords(split(text), 1, <<>>, <<>>, maxWidth - 4)

\* lines 97-113; lineHeight is not used by the body
writeWrappedText(text, maxWidth, lineHeight) ==
    wrapWords(split(text), 1, <<>>, <<>>, maxWidth)

----------------------------------------------------------------------------
(* Inputs of buildPdf.  An optional column value is a sequence of length   *)
(* at most one: <<>> is null/undefined, <<v>> is the value v.              *)
(* The table's CHECK (duration_minutes > 0) keeps 0, null and negative     *)
(* values out of the rows the service reads; buildPdf takes Array<any>     *)
(* and neither it nor the handler validates, so they are inputs here.      *)

longWord == [k \in 1..12 |-> "m"]      \* two of them do not fit in 206 points

RECURSIVE paragraph(_)
paragraph(n) ==
    IF n = 0 THEN <<>>
    ELSE IF n = 1 THEN longWord
    ELSE paragraph(n - 1) \o <<" ">> \o longWord

shortNote == <<"a", " ", "a">>

EntryKinds ==
    { [entry_date |-> "2025-01-01", project_code |-> "PROJ-1",
       description |-> shortNote, duration_minutes |-> <<90>>],
      [entry_date |-> "2025-01-02", project_code |-> "",
       description |-> <<>>, duration_minutes |-> <<>>],
      [entry_date |-> "2025-01-03", project_code |-> "PROJ-2",
       description |-> paragraph(2), duration_minutes |-> <<125>>],
      [entry_date |-> "2025-01-04", project_code |-> "PROJ-3",
       description |-> paragraph(3), duration_minutes |-> <<-30>>],
      [entry_date |-> "2025-01-05", project_code |-> "PROJ-4",
       description |-> paragraph(22), duration_minutes |-> <<60>>],
      [entry_date |-> "2025-01-06", project_code |-> "PROJ-5",
       description |-> paragraph(49), duration_minutes |-> <<45>>],
      [entry_date |-> "2025-01-07", project_code |-> "PROJ-6",
       description |-> <<"a">>, duration_minutes |-> <<0>>] }

EntryArrays == UNION { [1..n -> EntryKinds] : n \in 0..MaxEntries }

----------------------------------------------------------------------------
(* buildPdf, lines 40-170 *)

\* `v || 0` on a number-or-null column value
orZero(v) == IF v = <<>> THEN 0 ELSE v[1]

\* Math.round(a / b) in place of Math.floor(a / b), b > 0
floorDiv_round(a, b) == (2 * a + b) \div (2 * b)

\* Math.floor(a / b), b > 0
floorDiv(a, b) == a \div b

\* JavaScript a % b, b > 0: the remainder takes the sign of a
jsRem(a, b) == IF a >= 0 THEN a % b ELSE -((-a) % b)

\* `s || alt` on a string
orElse(s, alt) == IF s = "" THEN alt ELSE s

drawOp(p, kind, yy, r, val) ==
    [page |-> p, kind |-> kind, y |-> yy, row |-> r, val |-> val]

\* The document under construction as the closures of buildPdf see it.
docState == [npages |-> npages, page |-> page, y |-> y, ops |-> ops]

\* lines 66-71
addHeader(d) ==
    [d EXCEPT !.ops = @ \o
        << drawOp(d.page, "brand", pageHeight - headerHeight, 0, "band"),
           drawOp(d.page, "title", pageHeight - headerHeight + 2000, 0,
                  "Tracker - Time Entries Report"),
           drawOp(d.page, "caption", pageHeight - headerHeight + 600, 0,
                  "Date range") >>]

\* lines 73-84 without the assignment of line 74: the headers are placed
\* relative to the cursor as it stands
addTableHeader_relative(d) ==
    LET y0 == d.y
        y1 == y0 - 800
    IN  [d EXCEPT
           !.ops = @ \o
              << drawOp(d.page, "colhdr", y0, 0, "Date"),
                 drawOp(d.page, "colhdr", y0, 0, "Project"),
                 drawOp(d.page, "colhdr", y0, 0, "Duration"),
                 drawOp(d.page, "colhdr", y0, 0, "Description"),
                 drawOp(d.page, "hdrline", y1, 0, "border") >>,
           !.y = y1 - 600]

\* lines 73-84
addTableHeader(d) ==
    LET y0 == pageHeight - headerHeight - tableTopGap
        y1 == y0 - 800
    IN  [d EXCEPT
           !.ops = @ \o
              << drawOp(d.page, "colhdr", y0, 0, "Date"),
                 drawOp(d.page, "colhdr", y0, 0, "Project"),
                 drawOp(d.page, "colhdr", y0, 0, "Duration"),
                 drawOp(d.page, "colhdr", y0, 0, "Description"),
                 drawOp(d.page, "hdrline", y1, 0, "border") >>,
           !.y = y1 - 600]

\* lines 86-90 without the call of addHeader
addNewPage_noHeader(d) ==
    addTableHeader([d EXCEPT !.npages = @ + 1, !.page = d.npages + 1])

\* lines 86-90
addNewPage(d) ==
    addTableHeader(addHeader(
        [d EXCEPT !.npages = @ + 1, !.page = d.npages + 1]))

\* line 115 iterating from the last entry to the first
entryAt_reversed(es, k) == es[Len(es) + 1 - k]

\* line 115: the k-th entry the for-of loop yields
entryAt(es, k) == es[k]

\* lines 116-129 without the Math.max of line 129
buildRow_noMinimum(e) ==
    LET hours     == floorDiv(orZero(e.duration_minutes), 60)
        mins      == jsRem(orZero(e.duration_minutes), 60)
        cells     == << e.entry_date,
                        orElse(e.project_code, "-"),
                        <<hours, "h ", mins, "m">>,
                        e.description >>
        descLines == writeWrappedText(cells[4], tableCols[4] - 4, 12)
    IN  [cells |-> cells, descLines |-> descLines,
         neededHeight |-> Len(descLines) * lineStep]

\* lines 116-129: the cells, the wrapped description and the needed height
buildRow(e) ==
    LET hours     == floorDiv(orZero(e.duration_minutes), 60)
        mins      == jsRem(orZero(e.duration_minutes), 60)
        cells     == << e.entry_date,
                        orElse(e.project_code, "-"),
                        <<hours, "h ", mins, "m">>,
                        e.description >>
        descLines == writeWrappedText(cells[4], tableCols[4] - 4, 12)
        lineCount == Len(descLines) * lineStep
    IN  [cells |-> cells, descLines |-> descLines,
         neededHeight |-> IF rowHeight >= lineCount THEN rowHeight ELSE lineCount]

\* line 118 with `=` in place of `+=`
accumulate_overwrite(t, e) == orZero(e.duration_minutes)

\* line 118
accumulate(t, e) == t + orZero(e.duration_minutes)

\* line 131 testing the fixed rowHeight in place of neededHeight
rowNeedsPage_fixedHeight(yy, neededHeight) == yy - rowHeight < margin + 4000

\* line 131
rowNeedsPage(yy, neededHeight) == yy - neededHeight < margin + 4000

\* line 160 subtracting the footer's height, as line 131 does for a row
footerNeedsPage_rowCheck(yy) == yy - footerStep < margin + 4000

\* line 160
footerNeedsPage(yy) == yy < margin + 4000

\* lines 135-156: the band, the three fixed cells, the description lines
drawRow(d, r, n) ==
    [d EXCEPT
       !.ops = @ \o
          << drawOp(d.page, "band", d.y - r.neededHeight + 400, n,
                    [color |-> "zebra", height |-> r.neededHeight]),
             drawOp(d.page, "date", d.y, n, r.cells[1]),
             drawOp(d.page, "project", d.y, n, r.cells[2]),
             drawOp(d.page, "duration", d.y, n, r.cells[3]) >>
          \o [k \in 1..Len(r.descLines) |->
                drawOp(d.page, "descline", d.y - (k - 1) * lineStep, n,
                       r.descLines[k])],
       !.y = @ - (r.neededHeight + rowGap)]

\* lines 161-165 drawing on the page captured before the loop (a stale
\* `page` reference)
drawFooter_stalePage(d, t) ==
    LET totalHours == floorDiv(t, 60)
        totalMins  == jsRem(t, 60)
    IN  [d EXCEPT
           !.ops = @ \o
              << drawOp(1, "rule", d.y, 0, "border"),
                 drawOp(1, "total", d.y - footerStep, 0,
                        <<"Total: ", totalHours, "h ", totalMins, "m (",
                          t, " minutes)">>) >>,
           !.y = @ - footerStep]

\* lines 161-165 drawing the total only when it is truthy
drawFooter_skipZero(d, t) ==
    LET totalHours == floorDiv(t, 60)
        totalMins  == jsRem(t, 60)
    IN  [d EXCEPT
           !.ops = @ \o
              << drawOp(d.page, "rule", d.y, 0, "border") >>
              \o (IF t = 0 THEN <<>>
                  ELSE << drawOp(d.page, "total", d.y - footerStep, 0,
                                 <<"Total: ", totalHours, "h ", totalMins,
                                   "m (", t, " minutes)">>) >>),
           !.y = @ - footerStep]

\* lines 161-165
drawFooter(d, t) ==
    LET totalHours == floorDiv(t, 60)
        totalMins  == jsRem(t, 60)
    IN  [d EXCEPT
           !.ops = @ \o
              << drawOp(d.page, "rule", d.y, 0, "border"),
                 drawOp(d.page, "total", d.y - footerStep, 0,
                        <<"Total: ", totalHours, "h ", totalMins, "m (",
                          t, " minutes)">>) >>,
           !.y = @ - footerStep]

noRow == [cells |-> <<>>, descLines |-> <<>>, neededHeight |-> 0]
noResult == [returned |-> FALSE, total |-> 0, pages |-> 0, ops |-> <<>>]

noRequest  == [method |-> "", start_date |-> "", end_date |-> "", json |-> FALSE]
noDocument == [pages |-> 0, ops |-> <<>>]
noResponse == [status |-> 0, kind |-> "none", document |-> noDocument,
               count |-> 0, total_minutes |-> 0, error |-> ""]

handlerIdle ==
    req = noRequest /\ hpc = "idle" /\ err = <<>> /\ resp = noResponse

concIdle == inv = <<>>

\* The state after lines 41-64: the document with its first page, the fonts,
\* the layout constants and the cursor declared at page height - margin.
Init ==
    /\ entries \in EntryArrays
    /\ pc = "header"
    /\ i = 0
    /\ npages = 1
    /\ page = 1
    /\ y = pageHeight - margin
    /\ total = 0
    /\ row = noRow
    /\ ops = <<>>
    /\ result = noResult
    /\ wtext = <<>> /\ wmax = 0 /\ wlines = <<>> /\ wagain = <<>>
    /\ wpc = "idle"
    /\ handlerIdle
    /\ concIdle

setDoc(d) ==
    /\ npages' = d.npages
    /\ page' = d.page
    /\ y' = d.y
    /\ ops' = d.ops

\* lines 92-95
FirstPage ==
    /\ pc = "header"
    /\ setDoc(addTableHeader(addHeader(docState)))
    /\ total' = 0
    /\ pc' = "loop"
    /\ UNCHANGED <<entries, i, row, result, wvars, hvars, cvars>>

\* lines 115-129: the next entry of the loop, up to the fits-check
BuildRow ==
    /\ pc = "loop"
    /\ i < Len(entries)
    /\ i' = i + 1
    /\ total' = accumulate(total, entryAt(entries, i + 1))
    /\ row' = buildRow(entryAt(entries, i + 1))
    /\ pc' = "fit"
    /\ UNCHANGED <<entries, npages, page, y, ops, result, wvars, hvars, cvars>>

\* lines 131-133, the branch taken
RowPageBreak ==
    /\ pc = "fit"
    /\ rowNeedsPage(y, row.neededHeight)
    /\ setDoc(addNewPage(docState))
    /\ pc' = "draw"
    /\ UNCHANGED <<entries, i, total, row, result, wvars, hvars, cvars>>

\* lines 135-156
DrawRow ==
    /\ \/ pc = "fit" /\ ~rowNeedsPage(y, row.neededHeight)
       \/ pc = "draw"
    /\ setDoc(drawRow(docState, row, i))
    /\ pc' = "loop"
    /\ UNCHANGED <<entries, i, total, row, result, wvars, hvars, cvars>>

\* line 160, the branch taken
FooterPageBreak ==
    /\ pc = "loop"
    /\ i = Len(entries)
    /\ footerNeedsPage(y)
    /\ setDoc(addNewPage(docState))
    /\ pc' = "footer"
    /\ UNCHANGED <<entries, i, total, row, result, wvars, hvars, cvars>>

\* lines 161-165
DrawFooter ==
    /\ \/ pc = "loop" /\ i = Len(entries) /\ ~footerNeedsPage(y)
       \/ pc = "footer"
    /\ setDoc(drawFooter(docState, total))
    /\ pc' = "save"
    /\ UNCHANGED <<entries, i, total, row, result, wvars, hvars, cvars>>

\* lines 167-169
Save ==
    /\ pc = "save"
    /\ result' = [returned |-> TRUE, total |-> total, pages |-> npages, ops |-> ops]
    /\ pc' = "done"
    /\ UNCHANGED <<entries, i, npages, page, y, total, row, ops, wvars, hvars, cvars>>

Next ==
    \/ FirstPage
    \/ BuildRow
    \/ RowPageBreak
    \/ DrawRow
    \/ FooterPageBreak
    \/ DrawFooter
    \/ Save

Spec == Init /\ [][Next]_vars

----------------------------------------------------------------------------
(* The line wrapper on its own: every text over the alphabet up to         *)
(* MaxTextLen, at several widths (points).                                 *)

RECURSIVE TextsOfLen(_)
TextsOfLen(n) ==
    IF n = 0 THEN {<<>>}
    ELSE { Append(t, c) : t \in TextsOfLen(n - 1), c \in Alphabet }

Texts == UNION { TextsOfLen(n) : n \in 0..MaxTextLen }

WrapWidths == {5, 10, 20, 206}

WrapInit ==
    /\ wtext \in Texts
    /\ wmax \in WrapWidths
    /\ wlines = <<>>
    /\ wagain = <<>>
    /\ wpc = "call"
    /\ entries = <<>> /\ pc = "idle" /\ i = 0 /\ npages = 0 /\ page = 0
    /\ y = 0 /\ total = 0 /\ row = noRow /\ ops = <<>> /\ result = noResult
    /\ handlerIdle
    /\ concIdle

\* lines 97-113 applied to (wtext, wmax)
WrapCall ==
    /\ wpc = "call"
    /\ wlines' = writeWrappedText(wtext, wmax, 12)
    /\ wpc' = "ret"
    /\ UNCHANGED <<wtext, wmax, wagain, bvars, hvars, cvars>>

\* Array.prototype.join(" ")
RECURSIVE joinLines(_, _)
joinLines(lines, k) ==
    IF k > Len(lines) THEN <<>>
    ELSE IF k = Len(lines) THEN lines[k]
    ELSE lines[k] \o <<" ">> \o joinLines(lines, k + 1)

\* lines 97-113 applied to the returned lines joined by single spaces
WrapAgain ==
    /\ wpc = "ret"
    /\ wagain' = writeWrappedText(joinLines(wlines, 1), wmax, 12)
    /\ wpc' = "again"
    /\ UNCHANGED <<wtext, wmax, wlines, bvars, hvars, cvars>>

WrapNext == WrapCall \/ WrapAgain

WrapSpec == WrapInit /\ [][WrapNext]_vars

-----------------------------------------------------------------------------
(* The request handler (lines 172-213) around fetchEntries and buildPdf *)

Methods   == {"OPTIONS", "GET", "POST"}
\* req.json() either throws (json = FALSE) or yields the two dates, an
\* absent or empty date being "".
Requests  ==
    [method : Methods, start_date : {"", "2025-01-01"},
     end_date : {"", "2025-01-31"}, json : BOOLEAN]

\* what a failing step throws: a value whose `message` is this text, the
\* empty text standing for a thrown value without a usable message
Thrown    == {"", "failed"}

\* `data` of the query: null (<<>>) or an array (<<rows>>)
FetchData == {<<>>} \cup {<<es>> : es \in EntryArrays}

\* line 37, data ?? []
orEmpty(data) == IF data = <<>> THEN <<>> ELSE data[1]

\* the catch of lines 206-211 written without `status: 500`
errorResponse_defaultStatus(status, message) ==
    [noResponse EXCEPT !.status = 200, !.kind = "error", !.error = message]

\* lines 180-183, 187-190, 208-211: a JSON body { error } with a status
errorResponse(status, message) ==
    [noResponse EXCEPT !.status = status, !.kind = "error", !.error = message]

\* lines 206-211
catch(e) == errorResponse(500, orElse(e, "Unknown error"))

\* line 175: new Response(null, { headers: corsHeaders }), status defaulting
\* to 200
preflightResponse == [noResponse EXCEPT !.status = 200]

\* lines 199-205 with `count` taken from the document instead of the rows
okResponse_pageCount(es, res) ==
    [noResponse EXCEPT !.status = 200, !.kind = "pdf",
                       !.document = [pages |-> res.pages, ops |-> res.ops],
                       !.count = res.pages, !.total_minutes = res.total]

\* lines 199-205
okResponse(es, res) ==
    [noResponse EXCEPT !.status = 200, !.kind = "pdf",
                       !.document = [pages |-> res.pages, ops |-> res.ops],
                       !.count = Len(es), !.total_minutes = res.total]

HandlerInit ==
    /\ req \in Requests
    /\ hpc = "recv"
    /\ err = <<>>
    /\ resp = noResponse
    /\ entries = <<>> /\ pc = "idle" /\ i = 0 /\ npages = 0 /\ page = 0
    /\ y = 0 /\ total = 0 /\ row = noRow /\ ops = <<>> /\ result = noResult
    /\ wtext = <<>> /\ wmax = 0 /\ wlines = <<>> /\ wagain = <<>>
    /\ wpc = "idle"
    /\ concIdle

respond(r) ==
    /\ resp' = r
    /\ hpc' = "sent"

\* lines 174-176
Preflight ==
    /\ hpc = "recv"
    /\ req.method = "OPTIONS"
    /\ respond(preflightResponse)
    /\ UNCHANGED <<req, err, bvars, wvars, cvars>>

\* lines 179-184
MethodNotAllowed ==
    /\ hpc = "recv"
    /\ req.method # "OPTIONS"
    /\ req.method # "POST"
    /\ respond(errorResponse(405, "Method not allowed"))
    /\ UNCHANGED <<req, err, bvars, wvars, cvars>>

\* line 186, req.json() resolving
ParseBody ==
    /\ hpc = "recv"
    /\ req.method = "POST"
    /\ req.json
    /\ hpc' = "parsed"
    /\ UNCHANGED <<req, err, resp, bvars, wvars, cvars>>

\* line 186, req.json() rejecting (or the destructuring of a non-object
\* throwing), caught at line 206
ParseThrows ==
    /\ hpc = "recv"
    /\ req.method = "POST"
    /\ ~req.json
    /\ \E e \in Thrown :
          /\ err' = <<e>>
          /\ respond(catch(e))
    /\ UNCHANGED <<req, bvars, wvars, cvars>>

\* lines 187-192
MissingDates ==
    /\ hpc = "parsed"
    /\ req.start_date = "" \/ req.end_date = ""
    /\ respond(errorResponse(400, "start_date and end_date are required"))
    /\ UNCHANGED <<req, err, bvars, wvars, cvars>>

\* line 194 with lines 17-38, the query answering without error
Fetch ==
    /\ hpc = "parsed"
    /\ req.start_date # "" /\ req.end_date # ""
    /\ \E data \in FetchData : entries' = orEmpty(data)
    /\ hpc' = "fetched"
    /\ UNCHANGED <<req, err, resp, pc, i, npages, page, y, total, row, ops,
                   result, wvars, cvars>>

\* line 36, `if (error) throw error`, caught at line 206
FetchThrows ==
    /\ hpc = "parsed"
    /\ req.start_date # "" /\ req.end_date # ""
    /\ \E e \in Thrown :
          /\ err' = <<e>>
          /\ respond(catch(e))
    /\ UNCHANGED <<req, bvars, wvars, cvars>>

\* line 195 entering buildPdf, lines 41-64
CallBuildPdf ==
    /\ hpc = "fetched"
    /\ pc' = "header"
    /\ i' = 0
    /\ npages' = 1
    /\ page' = 1
    /\ y' = pageHeight - margin
    /\ total' = 0
    /\ row' = noRow
    /\ ops' = <<>>
    /\ hpc' = "building"
    /\ UNCHANGED <<req, err, resp, entries, result, wvars, cvars>>

\* A call made by buildPdf throws (a pdf-lib draw call on text the font
\* cannot encode, pdfDoc.save(), String.fromCharCode(...bytes), btoa): the
\* rejection of line 195 is caught at line 206.  The document composed so
\* far stays in ops; buildPdf has not returned.
BuildThrows ==
    /\ hpc = "building"
    /\ pc \in {"header", "loop", "fit", "draw", "footer", "save"}
    /\ \E e \in Thrown :
          /\ err' = <<e>>
          /\ respond(catch(e))
    /\ pc' = "thrown"
    /\ UNCHANGED <<req, entries, i, npages, page, y, total, row, ops, result,
                   wvars, cvars>>

\* lines 195-205, buildPdf having returned
Respond ==
    /\ hpc = "building"
    /\ pc = "done"
    /\ respond(okResponse(entries, result))
    /\ UNCHANGED <<req, err, bvars, wvars, cvars>>

HandlerNext ==
    \/ Preflight
    \/ MethodNotAllowed
    \/ ParseBody
    \/ ParseThrows
    \/ MissingDates
    \/ Fetch
    \/ FetchThrows
    \/ CallBuildPdf
    \/ FirstPage
    \/ BuildRow
    \/ RowPageBreak
    \/ DrawRow
    \/ FooterPageBreak
    \/ DrawFooter
    \/ Save
    \/ BuildThrows
    \/ Respond

HandlerSpec == HandlerInit /\ [][HandlerNext]_vars

-----------------------------------------------------------------------------
(* Two invocations of buildPdf in one isolate.  JavaScript runs one         *)
(* invocation at a time and switches only at an await: lines 41, 45, 46     *)
(* and 167 of buildPdf, line 194 of the handler.  Everything between two    *)
(* awaits is one step.  Every variable buildPdf assigns (pdfDoc, page, y,   *)
(* total, the closures over them) is declared inside the function body, so  *)
(* each call has its own; the module scope holds only the constant          *)
(* corsHeaders.                                                             *)

MaxConcEntries == 2
Invocations    == {1, 2}

ConcEntryKinds ==
    {e \in EntryKinds : e.entry_date \in {"2025-01-01", "2025-01-06"}}
ConcArrays     == UNION {[1..n -> ConcEntryKinds] : n \in 0..MaxConcEntries}

\* the bindings of one invocation before line 194 has resolved
newCall ==
    [entries |-> <<>>, pc |-> "fetch", i |-> 0, npages |-> 0, page |-> 0,
     y |-> 0, total |-> 0, row |-> noRow, ops |-> <<>>, result |-> noResult]

\* `let total` declared in the module scope: one binding for all invocations
store_sharedTotal(all, k, new) ==
    [j \in DOMAIN all |->
        IF j = k THEN new ELSE [all[j] EXCEPT !.total = new.total]]

\* an invocation assigns its own bindings (declared at lines 41-64 and 95,
\* inside the function body)
store(all, k, new) == [all EXCEPT ![k] = new]

\* line 194 resolved, buildPdf called: runs to the await of line 41
fetched(l, es) == [l EXCEPT !.entries = es, !.pc = "create"]

\* line 41 resolved: runs to the await of line 45
created(l) == [l EXCEPT !.pc = "font"]

\* line 45 resolved: runs to the await of line 46
fontEmbedded(l) == [l EXCEPT !.pc = "bold"]

\* line 46 resolved: lines 47-64
entered(l) ==
    [l EXCEPT !.npages = 1, !.page = 1, !.y = pageHeight - margin,
              !.pc = "header"]

docOf(l) == [npages |-> l.npages, page |-> l.page, y |-> l.y, ops |-> l.ops]

withDoc(l, d, next) ==
    [l EXCEPT !.npages = d.npages, !.page = d.page, !.y = d.y,
              !.ops = d.ops, !.pc = next]

\* one step of lines 92-165 on the bindings l, as FirstPage .. DrawFooter
buildStep(l) ==
    CASE l.pc = "header" ->
            withDoc([l EXCEPT !.total = 0],
                    addTableHeader(addHeader(docOf(l))), "loop")
      [] l.pc = "loop" /\ l.i < Len(l.entries) ->
            [l EXCEPT !.i = @ + 1,
                      !.total = accumulate(@, entryAt(l.entries, l.i + 1)),
                      !.row = buildRow(entryAt(l.entries, l.i + 1)),
                      !.pc = "fit"]
      [] l.pc = "fit" /\ rowNeedsPage(l.y, l.row.neededHeight) ->
            withDoc(l, addNewPage(docOf(l)), "draw")
      [] \/ l.pc = "fit" /\ ~rowNeedsPage(l.y, l.row.neededHeight)
         \/ l.pc = "draw" ->
            withDoc(l, drawRow(docOf(l), l.row, l.i), "loop")
      [] l.pc = "loop" /\ l.i = Len(l.entries) /\ footerNeedsPage(l.y) ->
            withDoc(l, addNewPage(docOf(l)), "footer")
      [] \/ l.pc = "loop" /\ l.i = Len(l.entries) /\ ~footerNeedsPage(l.y)
         \/ l.pc = "footer" ->
            withDoc(l, drawFooter(docOf(l), l.total), "save")

\* lines 92-167 run without interruption up to the call of pdfDoc.save()
RECURSIVE composed(_)
composed(l) == IF l.pc = "save" THEN l ELSE composed(buildStep(l))

\* line 167 resolved: lines 168-169
returned(l) ==
    [l EXCEPT !.result = [returned |-> TRUE, total |-> l.total,
                          pages |-> l.npages, ops |-> l.ops],
              !.pc = "done"]

ConcInit ==
    /\ inv = [k \in Invocations |-> newCall]
    /\ entries = <<>> /\ pc = "idle" /\ i = 0 /\ npages = 0 /\ page = 0
    /\ y = 0 /\ total = 0 /\ row = noRow /\ ops = <<>> /\ result = noResult
    /\ wtext = <<>> /\ wmax = 0 /\ wlines = <<>> /\ wagain = <<>>
    /\ wpc = "idle"
    /\ handlerIdle

\* line 194 resolves with the rows of this request
FetchResolved(k) ==
    /\ inv[k].pc = "fetch"
    /\ \E es \in ConcArrays : inv' = store(inv, k, fetched(inv[k], es))
    /\ UNCHANGED <<bvars, wvars, hvars>>

\* line 41 resolves
CreateResolved(k) ==
    /\ inv[k].pc = "create"
    /\ inv' = store(inv, k, created(inv[k]))
    /\ UNCHANGED <<bvars, wvars, hvars>>

\* line 45 resolves
FontResolved(k) ==
    /\ inv[k].pc = "font"
    /\ inv' = store(inv, k, fontEmbedded(inv[k]))
    /\ UNCHANGED <<bvars, wvars, hvars>>

\* line 46 resolves: lines 47-167
BoldResolved(k) ==
    /\ inv[k].pc = "bold"
    /\ inv' = store(inv, k, composed(entered(inv[k])))
    /\ UNCHANGED <<bvars, wvars, hvars>>

\* line 167 resolves: lines 168-169
SaveResolved(k) ==
    /\ inv[k].pc = "save"
    /\ inv' = store(inv, k, returned(inv[k]))
    /\ UNCHANGED <<bvars, wvars, hvars>>

ConcNext ==
    \E k \in Invocations :
        \/ FetchResolved(k)
        \/ CreateResolved(k)
        \/ FontResolved(k)
        \/ BoldResolved(k)
        \/ SaveResolved(k)

ConcSpec == ConcInit /\ [][ConcNext]_vars

----------------------------------------------------------------------------
(* Properties of buildPdf (specification Spec) *)

started == pc \in {"loop", "fit", "draw", "footer", "save", "done"}

RECURSIVE sumOfDurations(_, _)
sumOfDurations(es, n) ==
    IF n = 0 THEN 0
    ELSE sumOfDurations(es, n - 1)
         + (IF es[n].duration_minutes = <<>> THEN 0 ELSE es[n].duration_minutes[1])

opsOfKind(kind) == SelectSeq(ops, LAMBDA o : o.kind = kind)
opsOfRow(n)     == SelectSeq(ops, LAMBDA o : o.row = n)
opsOnPage(p)    == SelectSeq(ops, LAMBDA o : o.page = p)
rowOps          == SelectSeq(ops, LAMBDA o : o.row > 0)

\* C1: the running total is the arithmetic sum of duration_minutes of the
\* entries taken so far (an absent duration counting as 0), so the total
\* returned by buildPdf and the total written in the footer equal the sum
\* over the whole input, whatever number of page breaks happened.
C1_TotalIsSum ==
    /\ started => total = sumOfDurations(entries, i)
    /\ pc = "done" =>
          /\ result.total = sumOfDurations(entries, Len(entries))
          /\ Len(opsOfKind("total")) = 1
          /\ opsOfKind("total")[1].val[6] = sumOfDurations(entries, Len(entries))

C1_Witness ==
    /\ pc = "done"
    /\ Len(entries) = 3
    /\ npages >= 3
    /\ result.total = 60 + 45 + 125

\* C2: rows are drawn in input order and never re-sorted: the draw calls of
\* row n show entry n of the input, no draw call of a row follows one of a
\* later row, and of two rows the earlier one lies on an earlier page or on
\* the same page at a strictly higher vertical offset.
C2_RowsInInputOrder ==
    LET dates == opsOfKind("date")
    IN  /\ \A k \in 1..Len(rowOps) - 1 : rowOps[k].row <= rowOps[k + 1].row
        /\ \A k \in 1..Len(dates) :
              /\ dates[k].row = k
              /\ dates[k].val = entries[k].entry_date
        /\ \A a, b \in 1..Len(dates) :
              a < b =>
                 \/ dates[a].page < dates[b].page
                 \/ dates[a].page = dates[b].page /\ dates[a].y > dates[b].y
        /\ pc = "done" => Len(dates) = Len(entries)

C2_Witness ==
    /\ pc = "done"
    /\ Len(entries) = 3
    /\ entries[1].entry_date # entries[2].entry_date
    /\ entries[2].entry_date # entries[3].entry_date
    /\ LET dates == opsOfKind("date")
       IN  dates[1].page = dates[2].page /\ dates[2].page < dates[3].page

furniture == <<"brand", "title", "caption",
               "colhdr", "colhdr", "colhdr", "colhdr", "hdrline">>

isFurniture(kind) == \E k \in 1..Len(furniture) : furniture[k] = kind

\* C3: every page of the document, the first one and every page allocated
\* by a page break for a row or for the footer, carries the branded header
\* and the column headers exactly once, drawn before any row or footer of
\* that page.
C3_FurnitureOnEveryPage ==
    started =>
       \A p \in 1..npages :
          LET po == opsOnPage(p)
          IN  /\ Len(po) >= Len(furniture)
              /\ \A k \in 1..Len(po) :
                    IF k <= Len(furniture)
                    THEN po[k].kind = furniture[k]
                    ELSE ~isFurniture(po[k].kind)

C3_Witness ==
    /\ pc = "done"
    /\ npages = 3
    /\ opsOfKind("rule")[1].page = 3
    /\ opsOfRow(Len(entries))[1].page = 2

\* C4: the tint of a row's band alternates with the row's index: rows n and
\* n + 1 get different tints, on the same page or across a page break.
C4_ZebraAlternates ==
    LET bands == opsOfKind("band")
    IN  \A k \in 1..Len(bands) - 1 :
           bands[k].val.color # bands[k + 1].val.color

\* The step that decides whether the footer gets a page of its own (line 160).
footerDecision == pc = "loop" /\ i = Len(entries) /\ pc' # "loop"

\* C5 as stated: a new page is allocated for the footer exactly when the
\* cursor minus the footer's height (14) is below the bottom margin (80).
C5_FooterUsesRowCheck ==
    [][footerDecision => (npages' = npages + 1 <=> y - 1400 < 8000)]_vars

\* C5, amended: a new page is allocated for the footer exactly when the
\* cursor itself is below the bottom margin (80), the footer's height not
\* being subtracted; the footer is then drawn on that page.
C5_FooterBreaksBelowMargin ==
    /\ [][footerDecision => (npages' = npages + 1 <=> y < 8000)]_vars
    /\ [](pc \in {"save", "done"} =>
             /\ Len(opsOfKind("rule")) = 1
             /\ opsOfKind("rule")[1].page = npages
             /\ opsOfKind("total")[1].page = npages)

\* ... and this happens even when no entry triggered a page break: every row
\* is on page 1 and the footer is on page 2.
C5_Witness ==
    /\ pc = "save"
    /\ npages = 2
    /\ Len(entries) = 3
    /\ \A k \in 1..Len(rowOps) : rowOps[k].page = 1
    /\ opsOfKind("rule")[1].page = 2

\* The draw calls made by the step being taken.
newOps == SubSeq(ops', Len(ops) + 1, Len(ops'))

\* C6: before a row is drawn a new page is allocated if and only if
\* cursor - row height < 80; the band, the three fixed cells and every
\* wrapped description line of the row are then drawn on one page, the new
\* one after a break, so no row is split between two pages.
rowBreakIff ==
    pc = "fit" =>
       (npages' = npages + 1 /\ page' = npages + 1 /\ pc' = "draw"
          <=> y - row.neededHeight < 8000)

rowDrawnWhole ==
    pc \in {"fit", "draw"} /\ pc' = "loop" =>
       /\ Len(newOps) = 4 + Len(row.descLines)
       /\ newOps[1].kind = "band" /\ newOps[2].kind = "date"
       /\ newOps[3].kind = "project" /\ newOps[4].kind = "duration"
       /\ \A k \in 1..Len(newOps) :
             /\ newOps[k].page = npages
             /\ newOps[k].row = i
             /\ k > 4 => /\ newOps[k].kind = "descline"
                         /\ newOps[k].val = row.descLines[k - 4]

rowOnOnePage ==
    \A n \in 1..Len(entries) :
       \A k \in 1..Len(opsOfRow(n)) :
          opsOfRow(n)[k].page = opsOfRow(n)[1].page

C6_RowBreakAndWhole ==
    /\ [][rowBreakIff]_vars
    /\ [][rowDrawnWhole]_vars
    /\ []rowOnOnePage

\* a row of several lines that did not fit and was drawn whole on the new page
C6_Witness ==
    /\ pc = "loop"
    /\ i = 3
    /\ Len(row.descLines) >= 3
    /\ npages = 2
    /\ opsOfRow(2)[1].page = 1
    /\ Len(opsOfRow(3)) = 4 + Len(row.descLines)
    /\ \A k \in 1..Len(opsOfRow(3)) : opsOfRow(3)[k].page = 2

\* C7: after every page allocation, the first page included, the cursor is
\* at the one top-of-content offset 841.89 - 56 - 18 - 8 - 6 whatever it was
\* before, and no other step moves the cursor upward.
C7_CursorReset ==
    /\ [](ops # <<>> /\ ops[Len(ops)].kind = "hdrline" => y = 75389)
    /\ [][npages' # npages => npages' = npages + 1 /\ y' = 75389]_vars
    /\ [][y' > y => npages' = npages + 1]_vars

\* a second page break, taken from a cursor other than that of the first
C7_Witness ==
    /\ pc = "draw"
    /\ npages = 3
    /\ y = 75389
    /\ opsOfRow(1)[1].page = 1
    /\ opsOfRow(2)[1].page = 2

\* C8: for an empty input buildPdf returns, the document has exactly one
\* page holding the header, the column headers and the footer
\* "Total: 0h 0m (0 minutes)", and the returned total is 0.
C8_EmptyReport ==
    pc = "done" /\ entries = <<>> =>
       /\ result.returned
       /\ result.pages = 1
       /\ result.total = 0
       /\ Len(result.ops) = Len(furniture) + 2
       /\ \A k \in 1..Len(furniture) :
             result.ops[k].kind = furniture[k] /\ result.ops[k].page = 1
       /\ result.ops[Len(furniture) + 1].kind = "rule"
       /\ result.ops[Len(furniture) + 1].page = 1
       /\ result.ops[Len(furniture) + 2].kind = "total"
       /\ result.ops[Len(furniture) + 2].page = 1
       /\ result.ops[Len(furniture) + 2].val
             = <<"Total: ", 0, "h ", 0, "m (", 0, " minutes)">>

C8_Witness == pc = "done" /\ entries = <<>> /\ result.returned

rowDrawStep == pc \in {"fit", "draw"} /\ pc' = "loop"

maxOf(a, b) == IF a >= b THEN a ELSE b

descLinesOfRow(n) ==
    SelectSeq(ops, LAMBDA o : o.row = n /\ o.kind = "descline")

rowHeightIsMax ==
    /\ pc \in {"fit", "draw"} =>
          /\ row.neededHeight = maxOf(2200, Len(row.descLines) * 1400)
          /\ row.neededHeight >= 2200
    /\ \A n \in 1..Len(opsOfKind("band")) :
          LET band == opsOfKind("band")[n]
          IN  /\ band.row = n
              /\ band.val.height
                    = maxOf(2200, Len(descLinesOfRow(n)) * 1400)
              /\ band.val.height >= 2200

cursorLoweredByRow ==
    rowDrawStep =>
       /\ newOps[1].val.height = row.neededHeight
       /\ y' = y - (row.neededHeight + 600)

\* C13: the height of every row is max(22, wrapped line count * 14), hence
\* at least 22 also for an empty description, and drawing the row lowers
\* the cursor by exactly that height plus the gap of 6.
C13_RowHeight ==
    /\ []rowHeightIsMax
    /\ [][cursorLoweredByRow]_vars

\* a row of three lines (42) and a row without description (22), both drawn
C13_Witness ==
    /\ pc = "loop"
    /\ i = 2
    /\ Len(descLinesOfRow(1)) = 3 /\ opsOfKind("band")[1].val.height = 4200
    /\ Len(descLinesOfRow(2)) = 0 /\ opsOfKind("band")[2].val.height = 2200
    /\ y = 75389 - 4800 - 2800

\* duration_minutes of an entry as a number, null counting as 0
durationOf(e) ==
    IF e.duration_minutes = <<>> THEN 0 ELSE e.duration_minutes[1]

hoursMinutesOf(h, m, d) ==
    /\ h * 60 + m = d
    /\ 0 <= m /\ m < 60

\* C14: a duration of d >= 0 minutes is rendered as "{h}h {m}m" with
\* h * 60 + m = d and 0 <= m < 60 (125 as "2h 5m", 0 as "0h 0m", 90 as
\* "1h 30m"), and the footer total is formatted by the same rule:
\* "Total: 1h 30m (90 minutes)" for a single entry of 90 minutes.
C14_HoursAndMinutes ==
    /\ \A n \in 1..Len(opsOfKind("duration")) :
          LET cell == opsOfKind("duration")[n].val
              d    == durationOf(entries[n])
          IN  /\ Len(cell) = 4 /\ cell[2] = "h " /\ cell[4] = "m"
              /\ d >= 0 => hoursMinutesOf(cell[1], cell[3], d)
              /\ d = 125 => cell = <<2, "h ", 5, "m">>
              /\ d = 0 => cell = <<0, "h ", 0, "m">>
              /\ d = 90 => cell = <<1, "h ", 30, "m">>
    /\ pc \in {"save", "done"} =>
          LET text == opsOfKind("total")[1].val
              t    == sumOfDurations(entries, Len(entries))
          IN  /\ Len(text) = 7
              /\ text[1] = "Total: " /\ text[3] = "h " /\ text[5] = "m ("
              /\ text[6] = t /\ text[7] = " minutes)"
              /\ t >= 0 => hoursMinutesOf(text[2], text[4], t)
              /\ Len(entries) = 1 /\ t = 90 =>
                    text = <<"Total: ", 1, "h ", 30, "m (", 90, " minutes)">>

\* the single entry of 90 minutes, drawn and totalled
C14_Witness ==
    /\ pc = "done"
    /\ Len(entries) = 1
    /\ durationOf(entries[1]) = 90
    /\ opsOfKind("duration")[1].val = <<1, "h ", 30, "m">>
    /\ opsOfKind("total")[1].val
          = <<"Total: ", 1, "h ", 30, "m (", 90, " minutes)">>

\* C15: an entry whose duration_minutes is 0, absent or not a non-negative
\* integer is treated as zero: the amount an entry adds to the total and
\* the hours and minutes rendered for it are never negative.
C15_InvalidDurationIsZero ==
    /\ [][pc = "loop" /\ pc' = "fit" => total' >= total]_vars
    /\ [](\A n \in 1..Len(opsOfKind("duration")) :
             LET cell == opsOfKind("duration")[n].val
             IN  /\ cell[1] >= 0 /\ cell[3] >= 0
                 /\ durationOf(entries[n]) <= 0 =>
                       cell = <<0, "h ", 0, "m">>)

footerDrawn == pc \in {"save", "done"}

footerOnceAndLast ==
    /\ started /\ ~footerDrawn =>
          opsOfKind("rule") = <<>> /\ opsOfKind("total") = <<>>
    /\ footerDrawn =>
          /\ Len(opsOfKind("rule")) = 1 /\ Len(opsOfKind("total")) = 1
          /\ ops[Len(ops) - 1].kind = "rule" /\ ops[Len(ops)].kind = "total"
          /\ ops[Len(ops) - 1].page = npages /\ ops[Len(ops)].page = npages
          /\ \A k \in 1..Len(ops) : ops[k].page <= npages
          /\ i = Len(entries)
          /\ Len(opsOfKind("band")) = Len(entries)
          /\ ops[Len(ops)].val[6] = total
          /\ total = sumOfDurations(entries, Len(entries))

sealedAfterFooter ==
    footerDrawn =>
       /\ ops' = ops /\ total' = total /\ npages' = npages
       /\ pc = "save" /\ pc' = "done" =>
             /\ result'.ops = ops
             /\ result'.total = total
             /\ result'.pages = npages

\* C17: the footer (rule and total) is drawn exactly once, after the row of
\* the last entry, on the last page; the total is final then, and from the
\* footer to the serialized document nothing is drawn and the total does
\* not change.
C17_FooterOnceThenSealed ==
    /\ []footerOnceAndLast
    /\ [][sealedAfterFooter]_vars

\* three rows on three pages, the footer under the last row
C17_Witness ==
    /\ pc = "done"
    /\ Len(entries) = 3
    /\ npages = 3
    /\ opsOfRow(3)[1].page = 3
    /\ result.ops[Len(result.ops)].kind = "total"
    /\ result.ops[Len(result.ops)].page = 3

\* C19: every row is drawn inside the content area of its page: when a row
\* is drawn, after the page-break decision, cursor - row height >= 80, also
\* for an entry whose wrapped description is taller than a page, so no band
\* and no description line lies below the bottom margin.
C19_RowAboveBottomMargin ==
    /\ pc = "draw" => y - row.neededHeight >= 8000
    /\ \A k \in 1..Len(rowOps) :
          /\ rowOps[k].kind = "band" => rowOps[k].y - 400 >= 8000
          /\ rowOps[k].kind = "descline" => rowOps[k].y >= 8000

\* C20: a page break for a row is only taken when the page being left holds
\* at least one row (the fits-check never fails with the cursor at the top
\* of the content), so no page has header and column headers but no row,
\* except the single page of an empty report and a page allocated for the
\* footer.
C20_NoEmptyPage ==
    /\ pc = "fit" /\ y = 75389 => y - row.neededHeight >= 8000
    /\ pc = "draw" => \E k \in 1..Len(rowOps) : rowOps[k].page = npages - 1
    /\ pc = "done" =>
          \A p \in 1..npages :
             \/ \E k \in 1..Len(rowOps) : rowOps[k].page = p
             \/ entries = <<>> /\ npages = 1
             \/ p = npages /\ opsOfKind("rule")[1].page = p

----------------------------------------------------------------------------
(* Properties of the line wrapper (specification WrapSpec) *)

measuredTooWide(line, maxWidth) ==
    widthOfTextAtSize(line, fontSize) > maxWidth * 1000

hasWhitespace(line) == \E k \in 1..Len(line) : isWhitespace(line[k])

\* C9: no returned line measures more than max_width, unless the line is a
\* single word (it holds no whitespace) that alone is wider than max_width.
C9_LinesFitOrSingleWord ==
    wpc = "ret" =>
       \A k \in 1..Len(wlines) :
          measuredTooWide(wlines[k], wmax) =>
             wlines[k] # <<>> /\ ~hasWhitespace(wlines[k])

\* a line of two words that fits, followed by an over-wide word on its own
C9_Witness ==
    /\ wpc = "ret"
    /\ Len(wlines) = 2
    /\ hasWhitespace(wlines[1]) /\ ~measuredTooWide(wlines[1], wmax)
    /\ ~hasWhitespace(wlines[2]) /\ measuredTooWide(wlines[2], wmax)

\* text without its leading and trailing whitespace
trimmed(text) ==
    LET inked == { k \in 1..Len(text) : ~isWhitespace(text[k]) }
    IN  IF inked = {} THEN <<>>
        ELSE SubSeq(text, CHOOSE k \in inked : \A m \in inked : k <= m,
                          CHOOSE k \in inked : \A m \in inked : k >= m)

wordsJoinedBySingleSpaces(line) ==
    /\ line # <<>>
    /\ ~isWhitespace(line[1])
    /\ ~isWhitespace(line[Len(line)])
    /\ \A k \in 1..Len(line) - 1 :
          ~(isWhitespace(line[k]) /\ isWhitespace(line[k + 1]))

\* C10: the wrapper collapses runs of whitespace and discards leading and
\* trailing empty tokens: every returned line is a non-empty sequence of
\* non-empty words joined by exactly one space, with no leading or trailing
\* space, and a text wraps to the same lines as the text trimmed.
C10_WhitespaceNormalised ==
    wpc = "ret" =>
       /\ \A k \in 1..Len(wlines) : wordsJoinedBySingleSpaces(wlines[k])
       /\ wlines = writeWrappedText(trimmed(wtext), wmax, 12)

\* the non-empty words of a text, in order
wordsOf(text) == SelectSeq(split(text), LAMBDA w : w # <<>>)

RECURSIVE wordsOfLines(_, _)
wordsOfLines(lines, k) ==
    IF k > Len(lines) THEN <<>>
    ELSE wordsOf(lines[k]) \o wordsOfLines(lines, k + 1)

\* C11: the empty string wraps to zero lines; wrapping the returned lines,
\* joined by single spaces, at the same width returns the same lines; and
\* the returned lines hold the words of the input, in the input's order.
C11_EmptyAndIdempotent ==
    /\ wpc \in {"ret", "again"} /\ wtext = <<>> => wlines = <<>>
    /\ wpc \in {"ret", "again"} => wordsOfLines(wlines, 1) = wordsOf(wtext)
    /\ wpc = "again" => wagain = wlines

\* three lines, the first of two words, wrapped again
C11_Witness ==
    /\ wpc = "again"
    /\ Len(wlines) = 3
    /\ hasWhitespace(wlines[1])
    /\ wagain = wlines

\* A split of words 1..n into consecutive lines is the set of the positions
\* after which a line ends; a..b is one of its lines when it starts after a
\* cut (or at 1), ends at a cut (or at n) and holds no cut inside.
isLineOf(cuts, n, a, b) ==
    /\ a = 1 \/ (a - 1) \in cuts
    /\ b = n \/ b \in cuts
    /\ \A k \in a..(b - 1) : k \notin cuts

\* every line of the split respects maxWidth or is one word alone
respectsWidth(words, cuts, maxWidth) ==
    \A a \in 1..Len(words) : \A b \in a..Len(words) :
       isLineOf(cuts, Len(words), a, b) =>
          \/ a = b
          \/ ~measuredTooWide(joinLines(SubSeq(words, a, b), 1), maxWidth)

\* C12: the greedy wrapper returns the minimum number of lines: no split of
\* the same words into consecutive lines that respect max_width (an
\* over-wide word alone on a line being allowed) has fewer lines.
C12_FewestLines ==
    wpc = "ret" =>
       LET words == wordsOf(wtext)
           n     == Len(words)
       IN  /\ n = 0 => wlines = <<>>
           /\ n > 0 =>
                 \A cuts \in SUBSET (1..(n - 1)) :
                    respectsWidth(words, cuts, wmax) =>
                       Len(wlines) <= Cardinality(cuts) + 1

\* four words on two lines, where splits of three and four lines exist too
C12_Witness ==
    /\ wpc = "ret"
    /\ Len(wordsOf(wtext)) = 4
    /\ Len(wlines) = 2
    /\ respectsWidth(wordsOf(wtext), {1, 2, 3}, wmax)
    /\ respectsWidth(wordsOf(wtext), {1, 3}, wmax)

-----------------------------------------------------------------------------
(* Properties of the request handler (specification HandlerSpec) *)

sameDocument(d, res) ==
    /\ d.pages = res.pages
    /\ Len(d.ops) = Len(res.ops)
    /\ \A k \in 1..Len(d.ops) :
          /\ d.ops[k].kind = res.ops[k].kind
          /\ d.ops[k].page = res.ops[k].page
          /\ d.ops[k].y = res.ops[k].y
          /\ d.ops[k].row = res.ops[k].row

\* every entry has its band, the footer total is the last thing drawn
wholeDocument(d, es) ==
    /\ d.pages >= 1
    /\ Len(SelectSeq(d.ops, LAMBDA o : o.kind = "band")) = Len(es)
    /\ Len(SelectSeq(d.ops, LAMBDA o : o.kind = "total")) = 1
    /\ d.ops # <<>>
    /\ d.ops[Len(d.ops)].kind = "total"

\* C16: no partial document is returned as complete.  A response carries a
\* document only with status 200, and then nothing was thrown, the entries
\* were fetched, buildPdf has returned (all rows, footer, serialization) and
\* the document is the whole one it returned; a status 200 without a
\* document is the preflight answer only; when any step has thrown the
\* response is status 500 with a non-empty error message and no document.
C16_NoPartialDocument ==
    /\ resp.kind = "pdf" =>
          /\ resp.status = 200
          /\ hpc = "sent"
          /\ err = <<>>
          /\ pc = "done"
          /\ result.returned
          /\ i = Len(entries)
          /\ sameDocument(resp.document, result)
          /\ wholeDocument(resp.document, entries)
    /\ resp.kind # "pdf" => resp.document = noDocument
    /\ resp.status = 200 /\ resp.kind # "pdf" => req.method = "OPTIONS"
    /\ err # <<>> =>
          /\ hpc = "sent"
          /\ resp.status = 500
          /\ resp.kind = "error"
          /\ resp.error # ""
          /\ resp.document = noDocument
    /\ hpc = "sent" /\ pc \notin {"idle", "done"} => err # <<>>

\* composition threw after rows had been drawn: a partial document exists,
\* and the answer is the 500
C16_Witness ==
    /\ hpc = "sent"
    /\ pc = "thrown"
    /\ i >= 1
    /\ Len(ops) > 10
    /\ resp.status = 500

-----------------------------------------------------------------------------
(* Properties of concurrent invocations (specification ConcSpec) *)

\* one invocation on its own, from its call to position p
ownStep(l, es) ==
    CASE l.pc = "fetch"  -> fetched(l, es)
      [] l.pc = "create" -> created(l)
      [] l.pc = "font"   -> fontEmbedded(l)
      [] l.pc = "bold"   -> composed(entered(l))
      [] l.pc = "save"   -> returned(l)

RECURSIVE runAlone(_, _, _)
runAlone(l, es, p) == IF l.pc = p THEN l ELSE runAlone(ownStep(l, es), es, p)

sameOps(a, b) ==
    /\ Len(a) = Len(b)
    /\ \A k \in 1..Len(a) :
          /\ a[k].kind = b[k].kind
          /\ a[k].page = b[k].page
          /\ a[k].y = b[k].y
          /\ a[k].row = b[k].row
          /\ a[k].val = b[k].val

sameBindings(a, b) ==
    /\ a.pc = b.pc
    /\ a.i = b.i
    /\ a.npages = b.npages
    /\ a.page = b.page
    /\ a.y = b.y
    /\ a.total = b.total
    /\ sameOps(a.ops, b.ops)
    /\ a.result.returned = b.result.returned
    /\ a.result.total = b.result.total
    /\ a.result.pages = b.result.pages
    /\ sameOps(a.result.ops, b.result.ops)

\* C18: concurrent invocations share no mutable state.  However the two
\* invocations interleave at their awaits, the page list, cursor, running
\* total and returned value of each are, at every moment, those of the same
\* invocation run alone on its own input up to the same position.
C18_InvocationsIsolated ==
    \A k \in Invocations :
        sameBindings(inv[k], runAlone(newCall, inv[k].entries, inv[k].pc))

\* both invocations composed while neither had returned, on different
\* inputs, one report breaking onto a second page and the other not
C18_Witness ==
    /\ inv # <<>>
    /\ inv[1].pc = "save"
    /\ inv[2].pc = "save"
    /\ inv[1].npages >= 2
    /\ inv[2].npages = 1
    /\ inv[1].total # inv[2].total
    /\ Len(inv[2].entries) >= 1

-----------------------------------------------------------------------------
(* Validation in the request handler (specification HandlerSpec) *)

\* the request passes lines 174-192
validated(r) ==
    /\ r.method = "POST"
    /\ r.json
    /\ r.start_date # ""
    /\ r.end_date # ""

\* nothing of fetchEntries or buildPdf has happened
noWorkDone ==
    /\ entries = <<>>
    /\ pc = "idle"
    /\ i = 0
    /\ npages = 0
    /\ ops = <<>>
    /\ total = 0
    /\ result.returned = FALSE
    /\ err = <<>>
    /\ resp.document = noDocument

\* a step in which fetchEntries is called (it returns or throws) or in which
\* buildPdf is called or advances
workStep ==
    \/ hpc = "parsed" /\ hpc' = "fetched"
    \/ hpc = "parsed" /\ err' # err
    \/ hpc' = "building" /\ hpc # "building"
    \/ pc' # pc
    \/ entries' # entries

rejectedWithoutWork ==
    hpc = "sent" =>
       /\ req.method = "OPTIONS" =>
             /\ resp = preflightResponse
             /\ noWorkDone
       /\ req.method \notin {"OPTIONS", "POST"} =>
             /\ resp.status = 405
             /\ resp.kind = "error"
             /\ noWorkDone
       /\ /\ req.method = "POST"
          /\ req.json
          /\ req.start_date = "" \/ req.end_date = ""
          => /\ resp.status = 400
             /\ resp.kind = "error"
             /\ noWorkDone

okCarriesCountAndTotal ==
    hpc = "sent" /\ resp.status = 200 /\ req.method # "OPTIONS" =>
       /\ validated(req)
       /\ resp.count = Len(entries)
       /\ i = Len(entries)
       /\ resp.total_minutes = total
       /\ resp.total_minutes = result.total
       /\ resp.total_minutes = sumOfDurations(entries, Len(entries))

workOnlyWhenValidated == workStep => validated(req)

====
